---- MODULE Spec2Model ----
(***************************************************************************)
(* Patrol navigation example: the "move" action executor (MoveAction,      *)
(* move_action_node.cpp) and the mission controller (PatrollingController, *)
(* patrolling_controller_node.cpp).                                        *)
(*                                                                         *)
(* A coordinate a stands for the double the decimal a/10 denotes: the       *)
(* waypoint (-7.0, 1.5) is <<-70, 15>> and a pose message carrying         *)
(* (6.3, 2.0) is <<63, 20>>; a remaining distance r stands for the float   *)
(* (r/10)f.  Distances and progress fractions are IEEE 754 values, and     *)
(* the source's expressions are evaluated in binary64 arithmetic (round to *)
(* nearest even, one rounding per operation, as the x86-64 build does: no  *)
(* extended precision, no fused multiply-add): 6.3 - 6.0 is                *)
(* 0.29999999999999982, below 0.3, and 0.3 - 0.0 is 0.3.                   *)
(***************************************************************************)
EXTENDS Integers, Sequences, FiniteSets, TLC

VARIABLES
  \* ---- MoveAction (move_action_node.cpp)
  status_,            \* int status_: 0 Idle, 1 Navigating, 2 Reached
  awaiting,           \* inside the do/while of lines 105-109 (AwaitingServer)
  arguments,          \* get_arguments() of the current invocation
  waypoints_,         \* std::map<std::string, PoseStamped> waypoints_
  current_pos_,       \* geometry_msgs::msg::Pose current_pos_ (x, y)
  goal_pos_,          \* PoseStamped goal_pos_ (x, y)
  navigation_goal_,   \* NavigateToPose::Goal navigation_goal_ (x, y)
  dist_to_move,       \* double dist_to_move
  emitted,            \* what the last handler run reported to the host
  finish_count,       \* finish() calls of the current invocation
  goals_sent,         \* async_send_goal calls of the current invocation
  \* ---- Motion Service (navigate_to_pose action server)
  server_ready,       \* what wait_for_action_server would answer
  nav_goal,           \* the submitted goal's state at the server
  distance_remaining, \* the server's latest feedback for the goal
  reported_below,     \* the server reported < 0.3 during this invocation
  \* ---- PatrollingController (patrolling_controller_node.cpp)
  state_,             \* StateType state_
  received_value_,    \* int32_t received_value_
  goal,               \* the Knowledge Store's goal (the text given to setGoal)
  predicates,         \* the Knowledge Store's facts (their texts)
  \* ---- Execution Engine (ExecutorClient)
  executing,          \* execute_and_check_plan(): a plan is running
  result,             \* getResult(): "none", "success" or "failure"
  \* ---- what the last controller handler did
  last_branch,        \* the branch of step() it took, or "callback"
  last_getPlan,       \* the goal it gave to getPlan, and the answer
  last_start,         \* start_plan_execution: "none", or the engine's state
  last_removed        \* the predicates it passed to removePredicate

moveVars == <<status_, awaiting, arguments, waypoints_, current_pos_, goal_pos_,
              navigation_goal_, dist_to_move, emitted, finish_count, goals_sent,
              server_ready, nav_goal, distance_remaining, reported_below>>

ctlVars == <<state_, received_value_, goal, predicates, executing, result,
             last_branch, last_getPlan, last_start, last_removed>>

vars == <<moveVars, ctlVars>>

(***************************************************************************)
(* Bounds of the model.                                                    *)
(***************************************************************************)
\* The Motion Service reports remaining distances 0..MaxRemaining.
MaxRemaining == 3
\* The Selector Feed delivers values -1..MaxSelector.
MaxSelector == 4
\* The feedback lambda is applied to the distances 0.0, 0.1, .. MaxD0 / 10.
MaxD0 == 12

(***************************************************************************)
(* Waypoint Table and distances.                                           *)
(***************************************************************************)
\* A default-constructed pose: position (0, 0).
DefaultPose == <<0, 0>>

\* The table the constructor builds.
InitialWaypoints ==
  [id \in {"wp1", "wp2", "wp3", "wp4", "wp_control"} |->
     CASE id = "wp4" -> <<-70, 15>>
       [] id = "wp1" -> <<60, 20>>
       [] id = "wp3" -> <<-30, -80>>
       [] id = "wp2" -> <<70, -50>>
       [] id = "wp_control" -> <<20, 20>>]

\* std::map::operator[]: the table after a lookup of id (a missing key is
\* inserted with a default-constructed value).
MapIndex(m, id) ==
  [k \in DOMAIN m \cup {id} |-> IF k \in DOMAIN m THEN m[k] ELSE DefaultPose]

(***************************************************************************)
(* Natural numbers of any size: a sequence of limbs in base 2^15, least    *)
(* significant first, without leading zero limbs (zero is << >>).          *)
(***************************************************************************)
LimbBits == 15
Base == 32768

RECURSIVE Pow2(_)
Pow2(k) == IF k = 0 THEN 1 ELSE 2 * Pow2(k - 1)

RECURSIVE BitLen(_)
BitLen(n) == IF n = 0 THEN 0 ELSE 1 + BitLen(n \div 2)

RECURSIVE BigNorm(_)
BigNorm(a) ==
  IF a = <<>> THEN a
  ELSE IF a[Len(a)] = 0 THEN BigNorm(SubSeq(a, 1, Len(a) - 1))
  ELSE a

RECURSIVE BigFromInt(_)
BigFromInt(n) == IF n = 0 THEN <<>> ELSE <<n % Base>> \o BigFromInt(n \div Base)

\* a + b + c, for a carry c
RECURSIVE BigAddC(_, _, _)
BigAddC(a, b, c) ==
  IF a = <<>> /\ b = <<>> THEN (IF c = 0 THEN <<>> ELSE <<c>>)
  ELSE LET t == (IF a = <<>> THEN 0 ELSE Head(a)) +
                (IF b = <<>> THEN 0 ELSE Head(b)) + c
       IN <<t % Base>> \o BigAddC(IF a = <<>> THEN a ELSE Tail(a),
                                  IF b = <<>> THEN b ELSE Tail(b), t \div Base)

BigAdd(a, b) == BigAddC(a, b, 0)

\* a - b - c limb by limb, for a >= b + c and a borrow c
RECURSIVE BigSubB(_, _, _)
BigSubB(a, b, c) ==
  IF a = <<>> THEN <<>>
  ELSE LET t == Head(a) - (IF b = <<>> THEN 0 ELSE Head(b)) - c
       IN <<t % Base>> \o BigSubB(Tail(a), IF b = <<>> THEN b ELSE Tail(b),
                                  IF t < 0 THEN 1 ELSE 0)

\* a - b, for a >= b
BigSub(a, b) == BigNorm(BigSubB(a, b, 0))

RECURSIVE BigCmpAt(_, _, _)
BigCmpAt(a, b, i) ==
  IF i = 0 THEN 0
  ELSE IF a[i] < b[i] THEN -1
  ELSE IF a[i] > b[i] THEN 1
  ELSE BigCmpAt(a, b, i - 1)

\* -1, 0 or 1 as a < b, a = b or a > b
BigCmp(a, b) ==
  IF Len(a) < Len(b) THEN -1
  ELSE IF Len(a) > Len(b) THEN 1
  ELSE BigCmpAt(a, b, Len(a))

\* a * k + c, for k, c < Base
RECURSIVE BigMulSmall(_, _, _)
BigMulSmall(a, k, c) ==
  IF a = <<>> THEN (IF c = 0 THEN <<>> ELSE <<c>>)
  ELSE LET t == Head(a) * k + c
       IN <<t % Base>> \o BigMulSmall(Tail(a), k, t \div Base)

RECURSIVE BigMul(_, _)
BigMul(a, b) ==
  IF a = <<>> \/ b = <<>> THEN <<>>
  ELSE LET rest == BigMul(a, Tail(b))
       IN BigAdd(BigMulSmall(a, Head(b), 0),
                 IF rest = <<>> THEN rest ELSE <<0>> \o rest)

\* a * 2^s
BigShl(a, s) ==
  IF a = <<>> THEN a
  ELSE [i \in 1 .. (s \div LimbBits) |-> 0] \o
       BigMulSmall(a, Pow2(s % LimbBits), 0)

\* quotient (with leading zero limbs) and remainder of a by k, for k <= Base
RECURSIVE BigDivRem(_, _)
BigDivRem(a, k) ==
  IF a = <<>> THEN [q |-> <<>>, r |-> 0]
  ELSE LET hi == BigDivRem(Tail(a), k)
           t == hi.r * Base + Head(a)
       IN [q |-> <<t \div k>> \o hi.q, r |-> t % k]

\* a \div 2^s
BigShr(a, s) ==
  IF s \div LimbBits >= Len(a) THEN <<>>
  ELSE BigNorm(BigDivRem(SubSeq(a, s \div LimbBits + 1, Len(a)),
                         Pow2(s % LimbBits)).q)

BigBitLen(a) ==
  IF a = <<>> THEN 0 ELSE LimbBits * (Len(a) - 1) + BitLen(a[Len(a)])

\* the largest d in lo .. hi with (r + d)^2 <= n, given (r + lo)^2 <= n
RECURSIVE DigitSearch(_, _, _, _)
DigitSearch(r, n, lo, hi) ==
  IF lo = hi THEN lo
  ELSE LET mid == (lo + hi + 1) \div 2
           c == BigAdd(r, <<mid>>)
       IN IF BigCmp(BigMul(c, c), n) <= 0 THEN DigitSearch(r, n, mid, hi)
          ELSE DigitSearch(r, n, lo, mid - 1)

\* the integer square root, five bits at a time
RECURSIVE BigIsqrt(_)
BigIsqrt(n) ==
  IF n = <<>> THEN <<>>
  ELSE LET r == BigShl(BigIsqrt(BigShr(n, 10)), 5)
       IN BigAdd(r, BigFromInt(DigitSearch(r, n, 0, 31)))

\* the largest d in lo .. hi with (q + d) * b <= a, given (q + lo) * b <= a
RECURSIVE QuotSearch(_, _, _, _, _)
QuotSearch(q, a, b, lo, hi) ==
  IF lo = hi THEN lo
  ELSE LET mid == (lo + hi + 1) \div 2
       IN IF BigCmp(BigMul(BigAdd(q, <<mid>>), b), a) <= 0
          THEN QuotSearch(q, a, b, mid, hi)
          ELSE QuotSearch(q, a, b, lo, mid - 1)

\* a \div b for b > 0, ten bits at a time
RECURSIVE BigDiv(_, _)
BigDiv(a, b) ==
  IF BigCmp(a, b) < 0 THEN <<>>
  ELSE LET q == BigShl(BigDiv(BigShr(a, 10), b), 10)
       IN BigAdd(q, BigFromInt(QuotSearch(q, a, b, 0, 1023)))

(***************************************************************************)
(* IEEE 754 values in the range the poses span (no overflow, no           *)
(* subnormals): s * m * 2^e with s the sign, m a natural number and e an   *)
(* integer; an infinity of sign s; or NaN.  A double has m = 0 or          *)
(* 2^52 <= m < 2^53, and a float is held as the double it converts to.     *)
(* The Exact operators return the unrounded value (m of any size), the Dbl *)
(* operators round it to nearest, ties to even, as each operation of the   *)
(* code does.                                                              *)
(***************************************************************************)
MantissaBits == 53

\* the significand bits of a float
FloatMantissaBits == 24

Dbl(s, m, e) == [k |-> "fin", s |-> s, m |-> m, e |-> e]

DblZero == Dbl(1, <<>>, 0)

DblInf(s) == [k |-> "inf", s |-> s, m |-> <<>>, e |-> 0]

NegInf == DblInf(-1)

NaN == [k |-> "nan", s |-> 1, m |-> <<>>, e |-> 0]

\* x with its significand rounded to p bits: to nearest, ties to even
RoundTo(x, p) ==
  IF x.m = <<>> THEN DblZero
  ELSE LET len == BigBitLen(x.m)
       IN IF len <= p
          THEN Dbl(x.s, BigShl(x.m, p - len), x.e - (p - len))
          ELSE LET d == len - p
                   q == BigShr(x.m, d)
                   c == BigCmp(BigSub(x.m, BigShl(q, d)), BigShl(<<1>>, d - 1))
                   up == c > 0 \/ (c = 0 /\ q[1] % 2 = 1)
                   q2 == IF up THEN BigAdd(q, <<1>>) ELSE q
               IN IF BigBitLen(q2) > p
                  THEN Dbl(x.s, BigShr(q2, 1), x.e + d + 1)
                  ELSE Dbl(x.s, q2, x.e + d)

\* the double nearest to x
DblRound(x) == RoundTo(x, MantissaBits)

\* the float nearest to x (what passing a double for a float parameter
\* gives), as a double
FltRound(x) ==
  IF x.k = "fin" THEN DblRound(RoundTo(x, FloatMantissaBits)) ELSE x

\* The double a decimal with one fractional digit denotes (6.3 for 63):
\* |a| / 10 to 71 fractional bits, the last one set when bits were lost,
\* then rounded.
DblFromTenths(a) ==
  IF a = 0 THEN DblZero
  ELSE LET dr == BigDivRem(BigShl(BigFromInt(IF a < 0 THEN -a ELSE a), 70), 10)
           n == BigAdd(BigShl(BigNorm(dr.q), 1),
                       IF dr.r = 0 THEN <<>> ELSE <<1>>)
       IN DblRound(Dbl(IF a < 0 THEN -1 ELSE 1, n, -71))

\* The float a decimal with one fractional digit denotes (0.5f for 5).
FltFromTenths(a) ==
  IF a = 0 THEN DblZero
  ELSE LET dr == BigDivRem(BigShl(BigFromInt(IF a < 0 THEN -a ELSE a), 70), 10)
           n == BigAdd(BigShl(BigNorm(dr.q), 1),
                       IF dr.r = 0 THEN <<>> ELSE <<1>>)
       IN FltRound(Dbl(IF a < 0 THEN -1 ELSE 1, n, -71))

ExactAdd(x, y) ==
  IF x.m = <<>> THEN y
  ELSE IF y.m = <<>> THEN x
  ELSE LET e == IF x.e < y.e THEN x.e ELSE y.e
           a == BigShl(x.m, x.e - e)
           b == BigShl(y.m, y.e - e)
           c == BigCmp(a, b)
       IN IF x.s = y.s THEN Dbl(x.s, BigAdd(a, b), e)
          ELSE IF c = 0 THEN DblZero
          ELSE IF c > 0 THEN Dbl(x.s, BigSub(a, b), e)
          ELSE Dbl(y.s, BigSub(b, a), e)

ExactSub(x, y) == ExactAdd(x, Dbl(-y.s, y.m, y.e))

ExactMul(x, y) ==
  IF x.m = <<>> \/ y.m = <<>> THEN DblZero
  ELSE Dbl(x.s * y.s, BigMul(x.m, y.m), x.e + y.e)

\* x < y
ExactLess(x, y) == ExactSub(x, y).m # <<>> /\ ExactSub(x, y).s < 0

DblAdd(x, y) == DblRound(ExactAdd(x, y))

DblSub(x, y) == DblRound(ExactSub(x, y))

DblMul(x, y) == DblRound(ExactMul(x, y))

\* sqrt(x) for x >= 0, correctly rounded: the integer square root of m
\* scaled to 55 bits, a bit appended when it is not exact, then rounded.
DblSqrt(x) ==
  IF x.m = <<>> THEN DblZero
  ELSE LET k == IF x.e % 2 = 0 THEN 56 ELSE 57
           n == BigShl(x.m, k)
           r == BigIsqrt(n)
           r2 == IF BigCmp(BigMul(r, r), n) = 0 THEN BigShl(r, 1)
                 ELSE BigAdd(BigShl(r, 1), <<1>>)
       IN DblRound(Dbl(1, r2, (x.e - k) \div 2 - 1))

\* x / y for finite x and y, correctly rounded: the quotient of the
\* significands to 56 bits, a bit appended when it is not exact, then
\* rounded; x / 0 is an infinity and 0 / 0 is NaN.
DblDiv(x, y) ==
  IF y.m = <<>> THEN (IF x.m = <<>> THEN NaN ELSE DblInf(x.s * y.s))
  ELSE IF x.m = <<>> THEN DblZero
  ELSE LET n == BigShl(x.m, 56)
           q == BigDiv(n, y.m)
           q2 == IF BigCmp(BigMul(q, y.m), n) = 0 THEN BigShl(q, 1)
                 ELSE BigAdd(BigShl(q, 1), <<1>>)
       IN DblRound(Dbl(x.s * y.s, q2, x.e - y.e - 57))

\* The sign of a finite double: -1, 0 or 1.
Sign(x) == IF x.m = <<>> THEN 0 ELSE x.s

\* |a| compared with |b| for finite doubles (both with 53-bit
\* significands): -1, 0 or 1.
MagCmp(a, b) ==
  IF a.m = <<>> \/ b.m = <<>>
  THEN (IF a.m # <<>> THEN 1 ELSE IF b.m # <<>> THEN -1 ELSE 0)
  ELSE IF a.e # b.e THEN (IF a.e < b.e THEN -1 ELSE 1)
  ELSE BigCmp(a.m, b.m)

\* a < b on doubles: false when either is NaN.
Less(a, b) ==
  CASE a.k = "nan" \/ b.k = "nan" -> FALSE
    [] a.k = "inf" -> a.s < 0 /\ ~(b.k = "inf" /\ b.s < 0)
    [] b.k = "inf" -> b.s > 0
    [] Sign(a) # Sign(b) -> Sign(a) < Sign(b)
    [] OTHER -> Sign(a) * MagCmp(a, b) < 0

\* std::max(a, b) == (a < b) ? b : a
StdMax(a, b) == IF Less(a, b) THEN b ELSE a

\* std::min(a, b) == (b < a) ? b : a
StdMin(a, b) == IF Less(b, a) THEN b ELSE a

\* the double 1.0
DblOne == Dbl(1, <<0, 0, 0, 128>>, -52)

\* 1.0 - (r / d0) for finite r and d0
OneMinusRatio(r, d0) ==
  LET q == DblDiv(r, d0)
  IN CASE q.k = "nan" -> NaN
       [] q.k = "inf" -> DblInf(-q.s)
       [] OTHER -> DblSub(DblOne, q)

ProgressNoLowerClamp(r, d0) == StdMin(DblOne, OneMinusRatio(r, d0))

\* The feedback lambda's fraction:
\* std::min(1.0, std::max(0.0, 1.0 - (distance_remaining / dist_to_move))).
Progress(r, d0) == StdMin(DblOne, StdMax(DblZero, OneMinusRatio(r, d0)))

\* The double getDistance returns: each subtraction, product, the sum and
\* the square root rounded in turn.
DistanceDouble(pos1, pos2) ==
  LET dx == DblSub(DblFromTenths(pos1[1]), DblFromTenths(pos2[1]))
      dy == DblSub(DblFromTenths(pos1[2]), DblFromTenths(pos2[2]))
  IN DblSqrt(DblAdd(DblMul(dx, dx), DblMul(dy, dy)))

\* The 0.3 of "dist_to_move < 0.3", in tenths.
ReachedThreshold == 3

\* The double 0.3.
Threshold == DblFromTenths(ReachedThreshold)

ReachedTestAlways(d) == TRUE

ReachedTestInclusive(d) == ~Less(Threshold, d)

ReachedTestNever(d) == FALSE

\* dist_to_move < 0.3
ReachedTest(d) == Less(d, Threshold)

\* Destinations the host invokes "move" with: the table's ids and one that
\* is not in the table.
Destinations == {"wp1", "wp2", "wp3", "wp4", "wp_control", "wp_unknown"}

\* Poses the Pose Feed delivers: the origin, (0.3, 0.0) whose double lies
\* 0.3 (the double) from the origin, wp1, a point within 0.3 of wp1,
\* (6.3, 2.0) whose double lies 0.29999999999999982 from wp1, (6.0, 1.7)
\* whose double lies 0.30000000000000004 from wp1, and wp3.
Poses ==
  {<<0, 0>>, <<3, 0>>, <<60, 20>>, <<62, 22>>, <<63, 20>>, <<60, 17>>,
   <<-30, -80>>}

\* The poses goal_pos_ takes: the table's and the default one.
GoalPoses == {InitialWaypoints[id] : id \in DOMAIN InitialWaypoints} \cup {DefaultPose}

\* The distances of the poses that meet in the model, computed once:
\* the triples <<pos1, pos2, distance>>.
DistanceTable ==
  {<<pq[1], pq[2], DistanceDouble(pq[1], pq[2])>> :
     pq \in GoalPoses \X (Poses \cup {DefaultPose})}

\* MoveAction::getDistance.
getDistance(pos1, pos2) ==
  IF <<pos1, pos2>> \in GoalPoses \X (Poses \cup {DefaultPose})
  THEN (CHOOSE t \in DistanceTable : t[1] = pos1 /\ t[2] = pos2)[3]
  ELSE DistanceDouble(pos1, pos2)

\* Poses near wp1 that are not on a whole tenth from it.
CbPoses == {<<63, 25>>, <<68, 26>>, <<61, 21>>}

\* Values of dist_to_move the feedback lambda is applied to: the whole
\* tenths 0 .. MaxD0 and distances line 119 or 143 computes.
CbDistances ==
  {DblFromTenths(d) : d \in 0 .. MaxD0} \cup
  {DistanceDouble(InitialWaypoints["wp1"], p) : p \in CbPoses}

\* The lambda's fractions for those values, computed once: the triples
\* <<remaining distance, dist_to_move, fraction>>.
ProgressTable ==
  {<<rd[1], rd[2], Progress(FltFromTenths(rd[1]), rd[2])>> :
     rd \in (0 .. MaxD0 + MaxRemaining) \X CbDistances}

\* The lambda's fraction for feedback->distance_remaining = (r/10)f.
FeedbackFraction(r, d0) ==
  IF <<r, d0>> \in (0 .. MaxD0 + MaxRemaining) \X CbDistances
  THEN (CHOOSE t \in ProgressTable : t[1] = r /\ t[2] = d0)[3]
  ELSE Progress(FltFromTenths(r), d0)

\* Reports to the host: send_feedback and finish take the fraction as a
\* float.
Feedback(f, msg) ==
  [kind |-> "feedback", fraction |-> FltRound(f), msg |-> msg]
Finish(ok, f, msg) ==
  [kind |-> "finish", success |-> ok, fraction |-> FltRound(f), msg |-> msg]

\* send_feedback(0.0, "Move starting")
MoveStarting == Feedback(DblZero, "Move starting")

MoveCompletedAsFailure == Finish(FALSE, DblZero, "Move failed")

\* finish(true, 1.0, "Move completed")
MoveCompleted == Finish(TRUE, DblOne, "Move completed")

StatusAfterNavigatingSkipsReached(d) == IF ReachedTest(d) THEN 0 ELSE 1

\* if (dist_to_move < 0.3) { status_ = 2; }
StatusAfterNavigating(d) == IF ReachedTest(d) THEN 2 ELSE 1

\* No feedback received from the Motion Service for the goal yet.
NoFeedback == -1

(***************************************************************************)
(* MoveAction::do_work, one action per branch of the tick.                 *)
(***************************************************************************)
\* status_ == 0, lines 94-104: a new invocation's first tick reports 0.0
\* "Move starting", creates the action client and enters the wait loop.
DoWorkIdle(dst) ==
  /\ status_ = 0
  /\ ~awaiting
  /\ arguments' = <<"r2d2", "wp_control", dst>>
  /\ emitted' = <<MoveStarting>>
  /\ awaiting' = TRUE
  /\ finish_count' = 0
  /\ goals_sent' = 0
  /\ reported_below' = FALSE
  /\ UNCHANGED <<status_, waypoints_, current_pos_, goal_pos_, navigation_goal_,
                 dist_to_move, server_ready, nav_goal, distance_remaining>>
  /\ UNCHANGED ctlVars

DoWorkSubmitWithoutWaiting ==
  /\ status_ = 0
  /\ awaiting
  /\ LET wp_to_navigate == arguments[3]
         table == MapIndex(waypoints_, wp_to_navigate)
     IN /\ waypoints_' = table
        /\ goal_pos_' = table[wp_to_navigate]
        /\ navigation_goal_' = table[wp_to_navigate]
        /\ dist_to_move' = getDistance(table[wp_to_navigate], current_pos_)
  /\ goals_sent' = goals_sent + 1
  /\ nav_goal' = "active"
  /\ distance_remaining' = NoFeedback
  /\ status_' = 1
  /\ awaiting' = FALSE
  /\ UNCHANGED <<arguments, current_pos_, emitted, finish_count, server_ready,
                 reported_below>>
  /\ UNCHANGED ctlVars

\* status_ == 0, lines 105-140: the wait loop ends once the server answers
\* ready (an attempt that times out changes nothing and loops); the target
\* is looked up, the initial distance computed, the goal sent with the
\* default SendGoalOptions (send_goal_options is not passed), status_ = 1.
DoWorkSubmit ==
  /\ status_ = 0
  /\ awaiting
  /\ server_ready
  /\ LET wp_to_navigate == arguments[3]
         table == MapIndex(waypoints_, wp_to_navigate)
     IN /\ waypoints_' = table
        /\ goal_pos_' = table[wp_to_navigate]
        /\ navigation_goal_' = table[wp_to_navigate]
        /\ dist_to_move' = getDistance(table[wp_to_navigate], current_pos_)
  /\ goals_sent' = goals_sent + 1
  /\ nav_goal' = "active"
  /\ distance_remaining' = NoFeedback
  /\ status_' = 1
  /\ awaiting' = FALSE
  /\ UNCHANGED <<arguments, current_pos_, emitted, finish_count, server_ready,
                 reported_below>>
  /\ UNCHANGED ctlVars

\* status_ == 1, lines 141-147: recompute the distance from the latest pose
\* and move to status_ 2 when it is below 0.3. Nothing is reported.
DoWorkNavigating ==
  /\ status_ = 1
  /\ dist_to_move' = getDistance(goal_pos_, current_pos_)
  /\ status_' = StatusAfterNavigating(getDistance(goal_pos_, current_pos_))
  /\ emitted' = <<>>
  /\ UNCHANGED <<awaiting, arguments, waypoints_, current_pos_, goal_pos_,
                 navigation_goal_, finish_count, goals_sent, server_ready,
                 nav_goal, distance_remaining, reported_below>>
  /\ UNCHANGED ctlVars

\* status_ == 2, lines 148-153: reset to 0 and finish with success.
DoWorkReached ==
  /\ status_ = 2
  /\ status_' = 0
  /\ emitted' = <<MoveCompleted>>
  /\ finish_count' = finish_count + 1
  /\ UNCHANGED <<awaiting, arguments, waypoints_, current_pos_, goal_pos_,
                 navigation_goal_, dist_to_move, goals_sent, server_ready,
                 nav_goal, distance_remaining, reported_below>>
  /\ UNCHANGED ctlVars

\* MoveAction::current_pos_callback. The node is spun by one thread, so no
\* callback runs while do_work blocks in the wait loop.
current_pos_callback(msg) ==
  /\ ~awaiting
  /\ current_pos_' = msg
  /\ UNCHANGED <<status_, awaiting, arguments, waypoints_, goal_pos_,
                 navigation_goal_, dist_to_move, emitted, finish_count,
                 goals_sent, server_ready, nav_goal, distance_remaining,
                 reported_below>>
  /\ UNCHANGED ctlVars

\* The lambda of lines 125-131, applied to a feedback message whose
\* distance_remaining is (r/10)f.
feedback_callback(r) ==
  /\ distance_remaining' = r
  /\ emitted' = <<Feedback(FeedbackFraction(r, dist_to_move), "Move running")>>
  /\ UNCHANGED <<status_, awaiting, arguments, waypoints_, current_pos_,
                 goal_pos_, navigation_goal_, dist_to_move, finish_count,
                 goals_sent, server_ready, nav_goal, reported_below>>
  /\ UNCHANGED ctlVars

(***************************************************************************)
(* The Motion Service.                                                     *)
(***************************************************************************)
\* The action server comes up or goes away.
ServerReadiness ==
  /\ server_ready' = ~server_ready
  /\ UNCHANGED <<status_, awaiting, arguments, waypoints_, current_pos_,
                 goal_pos_, navigation_goal_, dist_to_move, emitted,
                 finish_count, goals_sent, nav_goal, distance_remaining,
                 reported_below>>
  /\ UNCHANGED ctlVars

\* The server publishes feedback for the active goal. The goal was sent
\* without a feedback callback, so the client runs nothing on it.
NavFeedback(r) ==
  /\ nav_goal = "active"
  /\ distance_remaining' = r
  /\ reported_below' = (reported_below \/ r < ReachedThreshold)
  /\ UNCHANGED <<status_, awaiting, arguments, waypoints_, current_pos_,
                 goal_pos_, navigation_goal_, dist_to_move, emitted,
                 finish_count, goals_sent, server_ready, nav_goal>>
  /\ UNCHANGED ctlVars

\* The server's result for the active goal. No result callback is
\* registered and the goal handle's future is never read.
NavResult(res) ==
  /\ nav_goal = "active"
  /\ nav_goal' = res
  /\ UNCHANGED <<status_, awaiting, arguments, waypoints_, current_pos_,
                 goal_pos_, navigation_goal_, dist_to_move, emitted,
                 finish_count, goals_sent, server_ready, distance_remaining,
                 reported_below>>
  /\ UNCHANGED ctlVars

(***************************************************************************)
(* PatrollingController.                                                   *)
(***************************************************************************)
\* The goal STARTING sets.
PatrolGoal ==
  "(and (robot_at r2d2 wp4) (patrolled wp1) (patrolled wp2) (patrolled wp3) (patrolled wp4))"

\* Before the first setGoal the store holds no goal.
NoGoal == ""

\* The facts init_knowledge adds.
InitialPredicates ==
  {"(robot_at r2d2 wp_control)", "(connected wp_control wp1)",
   "(connected wp1 wp2)", "(connected wp2 wp3)", "(connected wp3 wp4)",
   "(connected wp4 wp1)", "(connected wp4 wp3)", "(connected wp3 wp2)"}

\* The facts PATROL_FINISHED removes on success.
PatrolledFacts ==
  {"(patrolled wp1)", "(patrolled wp2)", "(patrolled wp3)", "(patrolled wp4)"}

CleanedUpNothing == {}

\* The removePredicate calls of lines 118-121.
CleanedUp == PatrolledFacts

SelectorGoalShifted(v, g) ==
  CASE v = 0 -> "(and(robot_at r2d2 wp2))"
    [] v = 1 -> "(and(robot_at r2d2 wp3))"
    [] v = 2 -> "(and(robot_at r2d2 wp4))"
    [] v = 3 -> "(and(robot_at r2d2 wp1))"
    [] OTHER -> g

\* switch (received_value_) of lines 123-140: the goal after it, g before.
SelectorGoal(v, g) ==
  CASE v = 0 -> "(and(robot_at r2d2 wp1))"
    [] v = 1 -> "(and(robot_at r2d2 wp2))"
    [] v = 2 -> "(and(robot_at r2d2 wp3))"
    [] v = 3 -> "(and(robot_at r2d2 wp4))"
    [] OTHER -> g

\* switch (received_value_) of lines 196-212: the facts it removes.
SelectorRemoved(v) ==
  CASE v = 0 -> {"(robot_at r2d2 wp1)"}
    [] v = 1 -> {"(robot_at r2d2 wp2)"}
    [] v = 2 -> {"(robot_at r2d2 wp3)"}
    [] v = 3 -> {"(robot_at r2d2 wp4)"}
    [] OTHER -> {}

PlanFinishedIgnoresExecuting == result # "none"

\* !executor_client_->execute_and_check_plan() && executor_client_->getResult()
PlanFinished == ~executing /\ result # "none"

FailureReplanClearsPatrolled == PatrolledFacts

\* The failure branches (lines 157-178, 214-235) remove no predicate.
FailureReplanRemoved == {}

\* The values the Selector Feed delivers.
SelectorValues == -1 .. MaxSelector

\* No getPlan call was made.
NoPlanCall == [goal |-> NoGoal, found |-> FALSE, called |-> FALSE]
PlanCall(g, found) == [goal |-> g, found |-> found, called |-> TRUE]

\* start_plan_execution(plan) on a found plan: what the engine was doing when
\* it was called ("none": not called).
StartCall(found) == IF ~found THEN "none" ELSE IF executing THEN "busy" ELSE "idle"

\* The engine takes the plan if it is not running one and the submission
\* goes through (accepted).
Started(found, accepted) == found /\ accepted /\ ~executing

StepStartingAdvancesWithoutPlan(found, accepted) ==
  /\ state_ = "STARTING"
  /\ goal' = PatrolGoal
  /\ last_branch' = "starting"
  /\ last_getPlan' = PlanCall(PatrolGoal, found)
  /\ last_start' = StartCall(found)
  /\ last_removed' = {}
  /\ executing' = (executing \/ Started(found, accepted))
  /\ state_' = "PATROL_FINISHED"
  /\ UNCHANGED <<received_value_, predicates, result>>
  /\ UNCHANGED moveVars

\* case STARTING, lines 81-102.
StepStarting(found, accepted) ==
  /\ state_ = "STARTING"
  /\ goal' = PatrolGoal
  /\ last_branch' = "starting"
  /\ last_getPlan' = PlanCall(PatrolGoal, found)
  /\ last_start' = StartCall(found)
  /\ last_removed' = {}
  /\ executing' = (executing \/ Started(found, accepted))
  /\ state_' = IF Started(found, accepted) THEN "PATROL_FINISHED" ELSE state_
  /\ UNCHANGED <<received_value_, predicates, result>>
  /\ UNCHANGED moveVars

\* case PATROL_FINISHED, the plan is still running or has no result yet.
StepPatrolFinishedRunning ==
  /\ state_ = "PATROL_FINISHED"
  /\ ~PlanFinished
  /\ last_branch' = "pf_running"
  /\ last_getPlan' = NoPlanCall
  /\ last_start' = "none"
  /\ last_removed' = {}
  /\ UNCHANGED <<state_, received_value_, goal, predicates, executing, result>>
  /\ UNCHANGED moveVars

\* case PATROL_FINISHED, success, lines 114-156.
StepPatrolFinishedSuccess(found, accepted) ==
  /\ state_ = "PATROL_FINISHED"
  /\ PlanFinished
  /\ result = "success"
  /\ predicates' = predicates \ CleanedUp
  /\ goal' = SelectorGoal(received_value_, goal)
  /\ last_branch' = "pf_success"
  /\ last_getPlan' = PlanCall(SelectorGoal(received_value_, goal), found)
  /\ last_start' = StartCall(found)
  /\ last_removed' = CleanedUp
  /\ executing' = (executing \/ Started(found, accepted))
  /\ state_' = IF Started(found, accepted) THEN "GO_BACK" ELSE state_
  /\ UNCHANGED <<received_value_, result>>
  /\ UNCHANGED moveVars

StepPatrolFinishedFailureRestarts(found, accepted) ==
  /\ state_ = "PATROL_FINISHED"
  /\ PlanFinished
  /\ result # "success"
  /\ predicates' = predicates \ FailureReplanRemoved
  /\ last_branch' = "pf_failure"
  /\ last_getPlan' = PlanCall(goal, found)
  /\ last_start' = StartCall(found)
  /\ last_removed' = FailureReplanRemoved
  /\ executing' = (executing \/ Started(found, accepted))
  /\ state_' = IF Started(found, accepted) THEN state_ ELSE "STARTING"
  /\ UNCHANGED <<received_value_, goal, result>>
  /\ UNCHANGED moveVars

\* case PATROL_FINISHED, failure, lines 157-178.
StepPatrolFinishedFailure(found, accepted) ==
  /\ state_ = "PATROL_FINISHED"
  /\ PlanFinished
  /\ result # "success"
  /\ predicates' = predicates \ FailureReplanRemoved
  /\ last_branch' = "pf_failure"
  /\ last_getPlan' = PlanCall(goal, found)
  /\ last_start' = StartCall(found)
  /\ last_removed' = FailureReplanRemoved
  /\ executing' = (executing \/ Started(found, accepted))
  /\ UNCHANGED <<state_, received_value_, goal, result>>
  /\ UNCHANGED moveVars

\* case GO_BACK, the plan is still running or has no result yet.
StepGoBackRunning ==
  /\ state_ = "GO_BACK"
  /\ ~PlanFinished
  /\ last_branch' = "gb_running"
  /\ last_getPlan' = NoPlanCall
  /\ last_start' = "none"
  /\ last_removed' = {}
  /\ UNCHANGED <<state_, received_value_, goal, predicates, executing, result>>
  /\ UNCHANGED moveVars

StepGoBackSuccessRestarts ==
  /\ state_ = "GO_BACK"
  /\ PlanFinished
  /\ result = "success"
  /\ predicates' = predicates \ SelectorRemoved(received_value_)
  /\ last_branch' = "gb_success"
  /\ last_getPlan' = NoPlanCall
  /\ last_start' = "none"
  /\ last_removed' = SelectorRemoved(received_value_)
  /\ state_' = "STARTING"
  /\ UNCHANGED <<received_value_, goal, executing, result>>
  /\ UNCHANGED moveVars

\* case GO_BACK, success, lines 193-213.
StepGoBackSuccess ==
  /\ state_ = "GO_BACK"
  /\ PlanFinished
  /\ result = "success"
  /\ predicates' = predicates \ SelectorRemoved(received_value_)
  /\ last_branch' = "gb_success"
  /\ last_getPlan' = NoPlanCall
  /\ last_start' = "none"
  /\ last_removed' = SelectorRemoved(received_value_)
  /\ UNCHANGED <<state_, received_value_, goal, executing, result>>
  /\ UNCHANGED moveVars

\* case GO_BACK, failure, lines 214-235.
StepGoBackFailure(found, accepted) ==
  /\ state_ = "GO_BACK"
  /\ PlanFinished
  /\ result # "success"
  /\ predicates' = predicates \ FailureReplanRemoved
  /\ last_branch' = "gb_failure"
  /\ last_getPlan' = PlanCall(goal, found)
  /\ last_start' = StartCall(found)
  /\ last_removed' = FailureReplanRemoved
  /\ executing' = (executing \/ Started(found, accepted))
  /\ UNCHANGED <<state_, received_value_, goal, result>>
  /\ UNCHANGED moveVars

\* PatrollingController::subscriberCallback, run by spin_some between steps.
subscriberCallback(data) ==
  /\ received_value_' = data
  /\ last_branch' = "callback"
  /\ last_getPlan' = NoPlanCall
  /\ last_start' = "none"
  /\ last_removed' = {}
  /\ UNCHANGED <<state_, goal, predicates, executing, result>>
  /\ UNCHANGED moveVars

(***************************************************************************)
(* The Execution Engine running the submitted plan.                        *)
(***************************************************************************)
RobotAtFacts ==
  {"(robot_at r2d2 wp_control)", "(robot_at r2d2 wp1)", "(robot_at r2d2 wp2)",
   "(robot_at r2d2 wp3)", "(robot_at r2d2 wp4)"}

\* The facts a plan for goal g has made true when it succeeds.
GoalFacts(g) ==
  CASE g = PatrolGoal -> {"(robot_at r2d2 wp4)"} \cup PatrolledFacts
    [] g = "(and(robot_at r2d2 wp1))" -> {"(robot_at r2d2 wp1)"}
    [] g = "(and(robot_at r2d2 wp2))" -> {"(robot_at r2d2 wp2)"}
    [] g = "(and(robot_at r2d2 wp3))" -> {"(robot_at r2d2 wp3)"}
    [] g = "(and(robot_at r2d2 wp4))" -> {"(robot_at r2d2 wp4)"}
    [] OTHER -> {}

\* The running plan ends with success: its actions' effects have reached the
\* goal (the robot is at one place only).
PlanSucceeds ==
  /\ executing
  /\ executing' = FALSE
  /\ result' = "success"
  /\ predicates' = (predicates \ RobotAtFacts) \cup GoalFacts(goal)
  /\ UNCHANGED <<state_, received_value_, goal, last_branch, last_getPlan,
                 last_start, last_removed>>
  /\ UNCHANGED moveVars

\* The running plan ends with a failed action: the robot is left at `at`.
PlanFails(at) ==
  /\ executing
  /\ executing' = FALSE
  /\ result' = "failure"
  /\ predicates' = (predicates \ RobotAtFacts) \cup {at}
  /\ UNCHANGED <<state_, received_value_, goal, last_branch, last_getPlan,
                 last_start, last_removed>>
  /\ UNCHANGED moveVars

(***************************************************************************)
(* Specifications.                                                         *)
(***************************************************************************)
\* The state after construction and init(), dist_to_move aside.
InitFields ==
  /\ status_ = 0
  /\ awaiting = FALSE
  /\ arguments = <<>>
  /\ waypoints_ = InitialWaypoints
  /\ current_pos_ = DefaultPose
  /\ goal_pos_ = DefaultPose
  /\ navigation_goal_ = DefaultPose
  /\ emitted = <<>>
  /\ finish_count = 0
  /\ goals_sent = 0
  /\ server_ready \in BOOLEAN
  /\ nav_goal = "none"
  /\ distance_remaining = NoFeedback
  /\ reported_below = FALSE
  /\ state_ = "STARTING"
  /\ received_value_ = -1
  /\ goal = NoGoal
  /\ predicates = InitialPredicates
  /\ executing = FALSE
  /\ result = "none"
  /\ last_branch = "init"
  /\ last_getPlan = NoPlanCall
  /\ last_start = "none"
  /\ last_removed = {}

\* What the storage of dist_to_move may hold before its first assignment:
\* any bit pattern of a double, one of each kind here (zero, a positive and
\* a negative number, both infinities, NaN).
Residue ==
  {DblZero, DblFromTenths(MaxD0), DblFromTenths(-MaxD0), DblInf(1), NegInf,
   NaN}

\* dist_to_move has no initializer: it holds any value until line 119.
Init ==
  /\ InitFields
  /\ dist_to_move \in Residue

NextMove ==
  \/ \E dst \in Destinations : DoWorkIdle(dst)
  \/ DoWorkSubmit
  \/ DoWorkNavigating
  \/ DoWorkReached
  \/ \E msg \in Poses : current_pos_callback(msg)
  \/ ServerReadiness
  \/ \E r \in 0 .. MaxRemaining : NavFeedback(r)
  \/ \E res \in {"succeeded", "aborted"} : NavResult(res)

NextCtl ==
  \/ \E found, accepted \in BOOLEAN : StepStarting(found, accepted)
  \/ StepPatrolFinishedRunning
  \/ \E found, accepted \in BOOLEAN : StepPatrolFinishedSuccess(found, accepted)
  \/ \E found, accepted \in BOOLEAN : StepPatrolFinishedFailure(found, accepted)
  \/ StepGoBackRunning
  \/ StepGoBackSuccess
  \/ \E found, accepted \in BOOLEAN : StepGoBackFailure(found, accepted)
  \/ \E data \in SelectorValues : subscriberCallback(data)
  \/ PlanSucceeds
  \/ \E at \in RobotAtFacts : PlanFails(at)

\* The feedback lambda applied to every remaining distance, for every
\* initial distance.
InitCb ==
  /\ InitFields
  /\ dist_to_move \in CbDistances

NextCb == \E r \in 0 .. MaxD0 + MaxRemaining : feedback_callback(r)

Next == NextMove \/ NextCtl

\* The action executor with the Motion Service and the Pose Feed.
SpecMove == Init /\ [][NextMove]_vars

\* The host's 100 ms timer keeps calling do_work while an invocation runs:
\* a tick that stays possible is eventually taken. (The first tick of an
\* invocation is the host's choice and gets no fairness.)
FairTicks ==
  /\ WF_vars(DoWorkSubmit)
  /\ WF_vars(DoWorkNavigating)
  /\ WF_vars(DoWorkReached)

\* The moves the fair-ticking specification invokes: one destination of the
\* table and one that is not in it.
LiveDestinations == {"wp1", "wp_unknown"}

\* The executor's steps with the Pose Feed, the server's readiness and its
\* result. The server's feedback is left out: no callback is registered for
\* it, so no step of the executor reads it.
NextMoveLive ==
  \/ \E dst \in LiveDestinations : DoWorkIdle(dst)
  \/ DoWorkSubmit
  \/ DoWorkNavigating
  \/ DoWorkReached
  \/ \E msg \in Poses : current_pos_callback(msg)
  \/ ServerReadiness
  \/ \E res \in {"succeeded", "aborted"} : NavResult(res)

\* The action executor under fair ticking.
SpecMoveFair == Init /\ [][NextMoveLive]_vars /\ FairTicks

\* The mission controller with the Execution Engine and the Selector Feed.
SpecCtl == Init /\ [][NextCtl]_vars

\* The feedback lambda as a function of its inputs.
SpecCb == InitCb /\ [][NextCb]_vars

\* Both nodes side by side.
Spec == Init /\ [][Next]_vars

(***************************************************************************)
(* Properties.                                                             *)
(***************************************************************************)
\* The squared planar distance of two poses, exactly (no rounding).
PlanarDistSq(p, q) ==
  LET dx == ExactSub(DblFromTenths(p[1]), DblFromTenths(q[1]))
      dy == ExactSub(DblFromTenths(p[2]), DblFromTenths(q[2]))
  IN ExactAdd(ExactMul(dx, dx), ExactMul(dy, dy))

\* The square of the double 0.3, exactly.
ThresholdSq ==
  ExactMul(DblFromTenths(ReachedThreshold), DblFromTenths(ReachedThreshold))

\* For the poses that meet in the model, computed once: the triples
\* <<p, q, the planar distance of p and q is below 0.3>>.
NearTable ==
  {<<pq[1], pq[2], ExactLess(PlanarDistSq(pq[1], pq[2]), ThresholdSq)>> :
     pq \in GoalPoses \X (Poses \cup {DefaultPose})}

\* The planar distance of p and q is below 0.3.
Near(p, q) ==
  IF <<p, q>> \in GoalPoses \X (Poses \cup {DefaultPose})
  THEN (CHOOSE t \in NearTable : t[1] = p /\ t[2] = q)[3]
  ELSE ExactLess(PlanarDistSq(p, q), ThresholdSq)

ActionState(s, a) ==
  CASE s = 0 /\ ~a -> "Idle"
    [] s = 0 /\ a -> "AwaitingServer"
    [] s = 1 -> "Navigating"
    [] s = 2 -> "Reached"

\* C1: start_plan_execution is called only while the engine is not executing
\* a previously submitted plan (at most one plan in flight).
C1_OnePlanInFlight == last_start # "busy"

C1_Witness ==
  /\ last_branch = "gb_failure"
  /\ last_start = "idle"
  /\ executing

\* C2: the executor's state changes only along
\* Idle -> (AwaitingServer ->) Navigating -> Reached -> Idle.
C2_StateOrder ==
  [][ActionState(status_, awaiting) # ActionState(status_', awaiting')
       => <<ActionState(status_, awaiting), ActionState(status_', awaiting')>> \in
            {<<"Idle", "AwaitingServer">>, <<"Idle", "Navigating">>,
             <<"AwaitingServer", "Navigating">>, <<"Navigating", "Reached">>,
             <<"Reached", "Idle">>}]_vars

C2_Witness ==
  /\ status_ = 0
  /\ ~awaiting
  /\ finish_count = 1
  /\ goals_sent = 1

\* C3: Reached is entered only from Navigating, on a step on which the
\* planar distance between the goal pose and the latest pose is below 0.3;
\* a step of the Motion Service (its feedback, its
\* result) never enters it.
C3_ReachedOnlyByPolling ==
  [][(status_' = 2 /\ status_ # 2)
       => /\ status_ = 1
          /\ Near(goal_pos_, current_pos_)
          /\ nav_goal' = nav_goal
          /\ distance_remaining' = distance_remaining]_vars

C3_Witness ==
  /\ status_ = 2
  /\ current_pos_ = <<62, 22>>
  /\ goal_pos_ = <<60, 20>>
  /\ nav_goal = "aborted"

\* C4: the PatrolFinished success branch sets the goal to robot_at r2d2 wp1,
\* wp2, wp3, wp4 for selector 0, 1, 2, 3 and leaves it as it was for any
\* other selector value.
C4_SelectorGoal ==
  [][(state_ = "PATROL_FINISHED" /\ ~executing /\ result = "success"
        /\ last_branch' # "callback")
       => /\ last_branch' = "pf_success"
          /\ goal' = CASE received_value_ = 0 -> "(and(robot_at r2d2 wp1))"
                       [] received_value_ = 1 -> "(and(robot_at r2d2 wp2))"
                       [] received_value_ = 2 -> "(and(robot_at r2d2 wp3))"
                       [] received_value_ = 3 -> "(and(robot_at r2d2 wp4))"
                       [] OTHER -> goal]_vars

C4_Witness ==
  /\ last_branch = "pf_success"
  /\ received_value_ = 2
  /\ goal = "(and(robot_at r2d2 wp3))"

\* C5: when the GoBack success branch runs, the fact it removes is the
\* robot_at fact of the waypoint the goal targets, whatever the selector
\* has become since the goal was set.
C5_RemovedMatchesGoal ==
  last_branch = "gb_success" =>
    /\ goal = "(and(robot_at r2d2 wp1))" => last_removed = {"(robot_at r2d2 wp1)"}
    /\ goal = "(and(robot_at r2d2 wp2))" => last_removed = {"(robot_at r2d2 wp2)"}
    /\ goal = "(and(robot_at r2d2 wp3))" => last_removed = {"(robot_at r2d2 wp3)"}
    /\ goal = "(and(robot_at r2d2 wp4))" => last_removed = {"(robot_at r2d2 wp4)"}

\* C6: a step of the controller that finds a finished plan with a failure
\* result, in PatrolFinished or GoBack, changes neither the goal nor any
\* fact, asks for a plan for that goal, submits it if found, and stays in
\* its state.
C6_FailureFrame ==
  [][(state_ \in {"PATROL_FINISHED", "GO_BACK"} /\ ~executing
        /\ result = "failure" /\ last_branch' # "callback")
       => /\ last_branch' \in {"pf_failure", "gb_failure"}
          /\ goal' = goal
          /\ predicates' = predicates
          /\ last_removed' = {}
          /\ last_getPlan'.called
          /\ last_getPlan'.goal = goal
          /\ last_getPlan'.found <=> last_start' = "idle"
          /\ state_' = state_]_vars

C6_Witness ==
  /\ last_branch = "pf_failure"
  /\ state_ = "PATROL_FINISHED"
  /\ last_getPlan = [goal |-> PatrolGoal, found |-> TRUE, called |-> TRUE]
  /\ last_start = "idle"
  /\ executing

\* C7 as claimed: while the Motion Service has reported no remaining
\* distance below 0.3 in this invocation, a Navigating executor stays in
\* Navigating and finish is not called, whatever the Pose Feed delivers
\* (stated for destinations of the Waypoint Table).
C7_StaysWhileServiceReportsFar ==
  [][(status_ = 1 /\ ~reported_below'
        /\ arguments[3] \in DOMAIN InitialWaypoints)
       => /\ status_' = 1
          /\ finish_count' = 0]_vars

\* C7, amended: while the latest pose is at planar distance 0.3 or more
\* from the goal pose, a Navigating executor stays in Navigating whatever the Motion Service reports, finish is not called,
\* and no step reports anything to the host.
C7_StaysWhilePoseFar ==
  [][(status_ = 1 /\ ~Near(goal_pos_, current_pos_))
       => /\ status_' = 1
          /\ finish_count' = 0
          /\ emitted' \in {emitted, <<>>}]_vars

C7_Witness ==
  /\ status_ = 1
  /\ goal_pos_ = <<60, 20>>
  /\ current_pos_ = <<60, 17>>
  /\ dist_to_move = getDistance(goal_pos_, current_pos_)
  /\ Less(Threshold, dist_to_move)
  /\ reported_below
  /\ emitted = <<>>

\* C8: every fraction reported to the host lies in [0, 1], for every
\* remaining distance and every initial distance (0 included).
C8_FractionInUnitInterval ==
  \A i \in DOMAIN emitted :
    /\ emitted[i].fraction.k = "fin"
    /\ \/ emitted[i].fraction.m = <<>>
       \/ /\ emitted[i].fraction.s = 1
          /\ \/ emitted[i].fraction.e < -52
             \/ emitted[i].fraction = [k |-> "fin", s |-> 1,
                                       m |-> <<0, 0, 0, 128>>, e |-> -52]

C8_Witness ==
  /\ Len(emitted) = 1
  /\ emitted[1].msg = "Move running"
  /\ dist_to_move.m = <<>>
  /\ distance_remaining > 0

\* C9: every terminal report is finish(true, 1.0, "Move completed"), made
\* once per invocation, by the tick that leaves Reached for Idle; the tick
\* that then leaves Idle reports 0.0 "Move starting".
C9_FinishOnceWithSuccess ==
  [][/\ \A i \in DOMAIN emitted' :
          emitted'[i].kind = "finish"
            => emitted'[i] = [kind |-> "finish", success |-> TRUE,
                              fraction |-> [k |-> "fin", s |-> 1,
                                           m |-> <<0, 0, 0, 128>>, e |-> -52],
                              msg |-> "Move completed"]
     /\ finish_count' <= 1
     /\ finish_count' > finish_count
          => status_ = 2 /\ Len(emitted') = 1 /\ emitted'[1].kind = "finish"
     /\ status_ = 2 /\ status_' # 2
          => status_' = 0 /\ ~awaiting' /\ finish_count' = 1
     /\ ~awaiting /\ awaiting'
          => /\ status_' = 0
             /\ finish_count' = 0
             /\ emitted' = <<[kind |-> "feedback",
                              fraction |-> [k |-> "fin", s |-> 1, m |-> <<>>,
                                           e |-> 0],
                              msg |-> "Move starting"]>>]_vars

C9_Witness ==
  /\ status_ = 0
  /\ awaiting
  /\ goals_sent = 0
  /\ nav_goal = "active"

\* C10: an invocation whose destination is not in the Waypoint Table
\* submits no navigation goal and does not enter Navigating.
C10_MissingWaypointFails ==
  (Len(arguments) = 3 /\ arguments[3] \notin DOMAIN InitialWaypoints)
    => goals_sent = 0 /\ status_ # 1

\* C11: the Waypoint Table holds exactly the five entries the constructor
\* gave it, with their poses, after any moves.
C11_TableImmutable == waypoints_ = InitialWaypoints

\* C12: the initial distance taken when the goal is submitted keeps its
\* value on every later step of the invocation, until the action finishes.
C12_InitialDistanceKept ==
  [][(status_ \in {1, 2} /\ arguments[3] \in DOMAIN InitialWaypoints)
       => dist_to_move' = dist_to_move]_vars

\* C13: a step of the controller in Starting sets the patrol goal and asks
\* for a plan for it; it moves to PatrolFinished exactly when a plan was
\* found and the engine took it; when no plan is found nothing is submitted
\* and the state stays Starting (so the next step does the same again).
C13_StartingRetries ==
  [][(state_ = "STARTING" /\ last_branch' # "callback")
       => /\ last_branch' = "starting"
          /\ goal' = "(and (robot_at r2d2 wp4) (patrolled wp1) (patrolled wp2) (patrolled wp3) (patrolled wp4))"
          /\ last_getPlan'.called
          /\ last_getPlan'.goal = goal'
          /\ state_' = "PATROL_FINISHED" <=> (last_getPlan'.found /\ executing')
          /\ state_' \in {"STARTING", "PATROL_FINISHED"}
          /\ ~last_getPlan'.found
               => /\ last_start' = "none"
                  /\ ~executing'
                  /\ state_' = "STARTING"]_vars

C13_Witness ==
  /\ state_ = "STARTING"
  /\ last_branch = "starting"
  /\ last_getPlan.called
  /\ ~last_getPlan.found
  /\ goal = PatrolGoal

\* C14: MissionState only changes Starting -> PatrolFinished -> GoBack: it
\* never returns to Starting and never leaves GoBack.
C14_MissionStateMonotone ==
  [][state_' # state_
       => <<state_, state_'>> \in {<<"STARTING", "PATROL_FINISHED">>,
                                   <<"PATROL_FINISHED", "GO_BACK">>}]_vars

C14_Witness ==
  /\ state_ = "GO_BACK"
  /\ last_branch = "gb_failure"
  /\ result = "failure"
  /\ ~executing

\* C15: while an invocation is Navigating, each remaining distance the
\* Motion Service reports for the submitted goal makes the executor report
\* clamp(1 - r/d0, 0, 1) with "Move running" to the host.
C15_FeedbackForwarded ==
  [][(status_ = 1 /\ nav_goal = "active"
        /\ arguments[3] \in DOMAIN InitialWaypoints
        /\ distance_remaining' # distance_remaining)
       => emitted' = <<Feedback(FeedbackFraction(distance_remaining',
                                                 dist_to_move),
                                "Move running")>>]_vars

\* A PatrolFinished success step has already run without a plan being
\* submitted: the plan's success is still the engine's result and the
\* patrolled facts are gone.
RetryPending ==
  /\ state_ = "PATROL_FINISHED"
  /\ ~executing
  /\ result = "success"
  /\ predicates \cap {"(patrolled wp1)", "(patrolled wp2)", "(patrolled wp3)",
                      "(patrolled wp4)"} = {}

\* C16 as claimed: after a PatrolFinished success step that got no plan, the
\* next step asks for a plan for the goal that attempt had set, whatever
\* the selector has become.
C16_RetrySameGoal ==
  [][(RetryPending /\ last_branch' # "callback")
       => /\ state_ = "PATROL_FINISHED"
          /\ last_getPlan'.called
          /\ last_getPlan'.goal = goal]_vars

\* C16, amended: after a PatrolFinished success step that submitted no plan
\* the state is still PatrolFinished, and the next step runs the success
\* branch again: it asks for a plan for the goal the selector of that step
\* maps to (wp1..wp4 for 0..3), which is the goal of the failed attempt
\* when the selector is outside 0..3 or maps to the same waypoint.
C16_RetryRemapsGoal ==
  [][(RetryPending /\ last_branch' # "callback")
       => /\ last_branch' = "pf_success"
          /\ last_getPlan'.called
          /\ last_getPlan'.goal = goal'
          /\ goal' = CASE received_value_ = 0 -> "(and(robot_at r2d2 wp1))"
                       [] received_value_ = 1 -> "(and(robot_at r2d2 wp2))"
                       [] received_value_ = 2 -> "(and(robot_at r2d2 wp3))"
                       [] received_value_ = 3 -> "(and(robot_at r2d2 wp4))"
                       [] OTHER -> goal
          /\ ~last_getPlan'.found => state_' = "PATROL_FINISHED"]_vars

C16_Witness ==
  /\ RetryPending
  /\ last_branch = "pf_success"
  /\ ~last_getPlan.found
  /\ received_value_ = 1
  /\ goal = "(and(robot_at r2d2 wp2))"
  /\ "(robot_at r2d2 wp4)" \in predicates

\* C17: once the plan submitted for GoBack has ended with success, the
\* controller stays in GoBack with the engine idle, never calls getPlan or
\* start_plan_execution again, and each of its steps only removes the
\* robot_at fact the selector of that step maps to.
C17_OneCycleOnly ==
  [][(state_ = "GO_BACK" /\ ~executing /\ result = "success")
       => /\ state_' = "GO_BACK"
          /\ ~executing'
          /\ result' = "success"
          /\ ~last_getPlan'.called
          /\ last_start' = "none"
          /\ goal' = goal
          /\ last_branch' # "callback"
               => /\ last_branch' = "gb_success"
                  /\ last_removed' =
                       CASE received_value_ = 0 -> {"(robot_at r2d2 wp1)"}
                         [] received_value_ = 1 -> {"(robot_at r2d2 wp2)"}
                         [] received_value_ = 2 -> {"(robot_at r2d2 wp3)"}
                         [] received_value_ = 3 -> {"(robot_at r2d2 wp4)"}
                         [] OTHER -> {}
                  /\ predicates' = predicates \ last_removed']_vars

C17_Witness ==
  /\ state_ = "GO_BACK"
  /\ last_branch = "gb_success"
  /\ received_value_ = 3
  /\ last_removed = {"(robot_at r2d2 wp4)"}
  /\ goal = "(and(robot_at r2d2 wp4))"
  /\ "(robot_at r2d2 wp4)" \notin predicates

\* The invocation's success has been reported and the executor is Idle.
FinishedInIdle == status_ = 0 /\ ~awaiting /\ finish_count = 1

\* Navigating, with the latest pose 0.3 or more from the goal pose.
NavigatingPoseFar ==
  status_ = 1 /\ ~Near(goal_pos_, current_pos_)

\* C18: under fair ticking, an executor waiting for the Motion Service
\* submits its goal unless the service is seen not ready, and a Navigating
\* executor reports success and is back in Idle unless the latest pose is
\* seen 0.3 or more from the goal while Navigating; so with the service
\* ready and the pose staying within 0.3 from some point on, the move
\* completes (also when the pose was within 0.3 at submission).
C18_MoveCompletes ==
  /\ awaiting ~> (status_ = 1 \/ ~server_ready)
  /\ status_ = 1 ~> (FinishedInIdle \/ NavigatingPoseFar)

C18_Witness ==
  /\ status_ = 0
  /\ ~awaiting
  /\ finish_count = 1
  /\ emitted = <<MoveCompleted>>
  /\ goal_pos_ = <<60, 20>>
  /\ current_pos_ = <<62, 22>>
  /\ dist_to_move = getDistance(goal_pos_, current_pos_)

\* C19: the step that starts an invocation reports 0.0 "Move starting" and
\* submits nothing; while the Motion Service is not ready the executor
\* waits (no goal, still Idle); the goal is submitted, once, by a step that
\* sees the service ready after that report, and that step leaves Idle.
C19_FirstTickOrder ==
  [][/\ goals_sent' <= 1
     /\ status_' # 0 => goals_sent' = 1
     /\ ~awaiting /\ awaiting'
          => /\ status_' = 0
             /\ goals_sent' = 0
             /\ emitted' = <<[kind |-> "feedback",
                              fraction |-> [k |-> "fin", s |-> 1, m |-> <<>>,
                                           e |-> 0],
                              msg |-> "Move starting"]>>
     /\ awaiting /\ ~server_ready
          => awaiting' /\ status_' = 0 /\ goals_sent' = 0
     /\ goals_sent' # goals_sent /\ goals_sent' # 0
          => /\ awaiting
             /\ server_ready
             /\ emitted = <<[kind |-> "feedback",
                             fraction |-> [k |-> "fin", s |-> 1, m |-> <<>>,
                                           e |-> 0],
                             msg |-> "Move starting"]>>
             /\ goals_sent' = 1
             /\ nav_goal' = "active"
             /\ status_ = 0
             /\ status_' = 1
             /\ ~awaiting']_vars

C19_Witness ==
  /\ status_ = 1
  /\ goals_sent = 1
  /\ emitted = <<MoveStarting>>
  /\ nav_goal = "active"
  /\ ~server_ready
  /\ finish_count = 0

\* C20 as claimed: a PatrolFinished success step with a selector outside
\* 0..3 removes the four patrolled facts, leaves the full patrol goal as
\* the goal, asks for a plan for the full patrol goal, and moves to GoBack
\* when the plan is found and the engine takes it.
C20_GoalRemainsPatrolGoal ==
  [][(state_ = "PATROL_FINISHED" /\ ~executing /\ result = "success"
        /\ received_value_ \notin {0, 1, 2, 3} /\ last_branch' # "callback")
       => /\ last_branch' = "pf_success"
          /\ last_removed' = {"(patrolled wp1)", "(patrolled wp2)",
                              "(patrolled wp3)", "(patrolled wp4)"}
          /\ predicates' = predicates \ last_removed'
          /\ goal' = "(and (robot_at r2d2 wp4) (patrolled wp1) (patrolled wp2) (patrolled wp3) (patrolled wp4))"
          /\ last_getPlan'.called
          /\ last_getPlan'.goal = goal'
          /\ state_' = "GO_BACK" <=> (last_getPlan'.found /\ executing')
          /\ state_' \in {"PATROL_FINISHED", "GO_BACK"}]_vars

\* C20, amended: a PatrolFinished success step with a selector outside 0..3
\* still removes the four patrolled facts, leaves the goal as it was, asks
\* for a plan for that goal, and moves to GoBack when the plan is found and
\* the engine takes it; the goal it leaves is the full patrol goal unless
\* the step is a retry (an earlier run of the branch submitted no plan),
\* and then it is the full patrol goal or the robot_at goal an earlier run
\* had set.
C20_InvalidSelectorAdvances ==
  [][(state_ = "PATROL_FINISHED" /\ ~executing /\ result = "success"
        /\ received_value_ \notin {0, 1, 2, 3} /\ last_branch' # "callback")
       => /\ last_branch' = "pf_success"
          /\ last_removed' = {"(patrolled wp1)", "(patrolled wp2)",
                              "(patrolled wp3)", "(patrolled wp4)"}
          /\ predicates' = predicates \ last_removed'
          /\ goal' = goal
          /\ ~RetryPending
               => goal' = "(and (robot_at r2d2 wp4) (patrolled wp1) (patrolled wp2) (patrolled wp3) (patrolled wp4))"
          /\ goal' \in {"(and (robot_at r2d2 wp4) (patrolled wp1) (patrolled wp2) (patrolled wp3) (patrolled wp4))",
                        "(and(robot_at r2d2 wp1))", "(and(robot_at r2d2 wp2))",
                        "(and(robot_at r2d2 wp3))", "(and(robot_at r2d2 wp4))"}
          /\ last_getPlan'.called
          /\ last_getPlan'.goal = goal
          /\ state_' = "GO_BACK" <=> (last_getPlan'.found /\ executing')
          /\ state_' \in {"PATROL_FINISHED", "GO_BACK"}]_vars

\* A retry with selector -1 after an attempt with selector 0 that got no
\* plan: the plan taken is for robot_at r2d2 wp1.
C20_Witness ==
  /\ state_ = "GO_BACK"
  /\ last_branch = "pf_success"
  /\ received_value_ = -1
  /\ goal = "(and(robot_at r2d2 wp1))"
  /\ last_getPlan = [goal |-> "(and(robot_at r2d2 wp1))", found |-> TRUE,
                     called |-> TRUE]
  /\ last_removed = PatrolledFacts
  /\ predicates \cap PatrolledFacts = {}
  /\ executing

====
